---------------------------- MODULE Spec2Model ----------------------------
(***************************************************************************)
(* A model of src/src/lib.rs (IronCoreLabs search-helpers): tri-gram       *)
(* extraction, salted hashing truncated to 32 bits, and randomized padding *)
(* of the hash set with a generator shared behind a Mutex.                 *)
(*                                                                         *)
(* A char is its Unicode code point, a string (&str / String) is a         *)
(* sequence of chars, a byte string is a sequence of 0..255.  A u32 hash   *)
(* is kept as its four big-endian bytes.                                   *)
(***************************************************************************)
EXTENDS Integers, Sequences, FiniteSets, TLC

(***************************************************************************)
(* Bounds of the model.                                                    *)
(***************************************************************************)
\* longest string of the exhaustive part of TriInputs, in chars
MaxLen == 3
\* number of threads sharing one Mutex<R>
NumCallers == 2

(***************************************************************************)
(* Program constants.                                                      *)
(***************************************************************************)
MAX_STRING_LEN == 200

FILTERED_CHARS ==
    { 33, 64, 35, 36, 37, 94, 38, 42, 40, 41, 123, 125, 95, 60, 62, 58, 59,
      44, 46, 34, 39, 96, 124, 43, 61, 47, 126, 91, 93, 92, 45 }

\* the range of Uniform::new_inclusive(1, 200)
ONE_TO_TWO_HUNDRED == 1 .. 200

(***************************************************************************)
(* Sequence helpers.                                                       *)
(***************************************************************************)
Min(a, b) == IF a <= b THEN a ELSE b

Range(f) == { f[i] : i \in DOMAIN f }

RECURSIVE ConcatRange(_, _, _)
\* ss[lo] \o ... \o ss[hi], halving the range
ConcatRange(ss, lo, hi) ==
    IF lo > hi THEN << >>
    ELSE IF lo = hi THEN ss[lo]
    ELSE LET mid == (lo + hi) \div 2
         IN  ConcatRange(ss, lo, mid) \o ConcatRange(ss, mid + 1, hi)

\* the concatenation of a sequence of sequences (Iterator::collect into String)
Concat(ss) == ConcatRange(ss, 1, Len(ss))

\* the function f on 1 .. n as a sequence value
AsSeq(f) == f \o << >>

Rep(c, n) == AsSeq([i \in 1 .. n |-> c])

(***************************************************************************)
(* UTF-8: str::len() and str::as_bytes() count and yield encoded bytes.    *)
(***************************************************************************)
Utf8(c) ==
    IF c < 128 THEN << c >>
    ELSE IF c < 2048 THEN << 192 + (c \div 64), 128 + (c % 64) >>
    ELSE IF c < 65536
      THEN << 224 + (c \div 4096), 128 + ((c \div 64) % 64), 128 + (c % 64) >>
    ELSE << 240 + (c \div 262144), 128 + ((c \div 4096) % 64),
            128 + ((c \div 64) % 64), 128 + (c % 64) >>

as_bytes(str) == Concat(AsSeq([i \in 1 .. Len(str) |-> Utf8(str[i])]))

\* s.len(): the length of a &str in BYTES
str_len(str) == Len(as_bytes(str))

\* s.chars().count()
chars_count(str) == Len(str)

(***************************************************************************)
(* unidecode::unidecode_char, on the characters of Alphabet and of the     *)
(* long inputs: ASCII maps to itself, U+00E9 to "e", U+0130 to "I",        *)
(* U+5FD7 to "Zhi ", U+8C6A to "Hao ", a Hangul syllable U+AC00..U+D7A3 to *)
(* the romanization of its initial, vowel and final, and a character       *)
(* outside the tables (U+102AE, U+102AF) to "".                            *)
(***************************************************************************)
HANGUL_INITIAL ==
    << <<103>>, <<103,103>>, <<110>>, <<100>>, <<100,100>>, <<114>>, <<109>>,
       <<98>>, <<98,98>>, <<115>>, <<115,115>>, <<>>, <<106>>, <<106,106>>,
       <<99>>, <<107>>, <<116>>, <<112>>, <<104>> >>

HANGUL_VOWEL ==
    << <<97>>, <<97,101>>, <<121,97>>, <<121,97,101>>, <<101,111>>, <<101>>,
       <<121,101,111>>, <<121,101>>, <<111>>, <<119,97>>, <<119,97,101>>,
       <<111,101>>, <<121,111>>, <<117>>, <<119,101,111>>, <<119,101>>,
       <<119,105>>, <<121,117>>, <<101,117>>, <<121,105>>, <<105>> >>

HANGUL_FINAL ==
    << <<>>, <<103>>, <<103,103>>, <<103,115>>, <<110>>, <<110,106>>,
       <<110,104>>, <<100>>, <<108>>, <<108,103>>, <<108,109>>, <<108,98>>,
       <<108,115>>, <<108,116>>, <<108,112>>, <<108,104>>, <<109>>, <<98>>,
       <<98,115>>, <<115>>, <<115,115>>, <<110,103>>, <<106>>, <<99>>,
       <<107>>, <<116>>, <<112>>, <<104>> >>

IsHangul(c) == c >= 44032 /\ c <= 55203

unidecode_char(c) ==
    IF c < 128 THEN << c >>
    ELSE IF c = 233 THEN << 101 >>
    ELSE IF c = 304 THEN << 73 >>
    ELSE IF c = 24535 THEN << 90, 104, 105, 32 >>
    ELSE IF c = 35946 THEN << 72, 97, 111, 32 >>
    ELSE IF IsHangul(c)
      THEN LET k == c - 44032
           IN  HANGUL_INITIAL[(k \div 588) + 1]
                 \o HANGUL_VOWEL[((k \div 28) % 21) + 1]
                 \o HANGUL_FINAL[(k % 28) + 1]
    ELSE << >>

\* str::to_lowercase on the transliterated (ASCII) string
to_lowercase(str) ==
    AsSeq([i \in 1 .. Len(str) |->
             IF str[i] >= 65 /\ str[i] <= 90 THEN str[i] + 32 ELSE str[i]])

(***************************************************************************)
(* The normalizer.                                                         *)
(***************************************************************************)
should_keep_char(c) == c \notin FILTERED_CHARS

char_to_trans(c) ==
    LET trans_string == unidecode_char(c)
    IN  IF trans_string = << >> THEN << c >> ELSE to_lowercase(trans_string)

converted_string(s) ==
    Concat(SelectSeq(AsSeq([i \in 1 .. Len(s) |->
                               IF should_keep_char(s[i])
                                 THEN char_to_trans(s[i]) ELSE << >>]),
                     LAMBDA t : t /= << >>))

(***************************************************************************)
(* UnicodeSegmentation::unicode_words, on converted strings over the model *)
(* alphabet: ASCII letters and digits and the non-ASCII letters join into  *)
(* words (UAX #29 WB5, WB8-WB10), every other character separates words    *)
(* and is dropped.                                                         *)
(***************************************************************************)
IsWordChar(c) ==
    \/ c >= 48 /\ c <= 57
    \/ c >= 65 /\ c <= 90
    \/ c >= 97 /\ c <= 122
    \/ c >= 128

\* the indices at which a word starts
WordStarts(str) ==
    { i \in 1 .. Len(str) :
        IsWordChar(str[i]) /\ (i = 1 \/ ~IsWordChar(str[i - 1])) }

\* the index at which the word starting at i ends
WordEnd(str, i) ==
    CHOOSE j \in i .. Len(str) :
        /\ \A k \in i .. j : IsWordChar(str[k])
        /\ j = Len(str) \/ ~IsWordChar(str[j + 1])

\* the words in the order of the string
unicode_words(str) ==
    LET starts == WordStarts(str)
        nth(k) == CHOOSE i \in starts :
                     Cardinality({ j \in starts : j < i }) = k - 1
    IN  AsSeq([k \in 1 .. Cardinality(starts) |->
                  SubSeq(str, nth(k), WordEnd(str, nth(k)))])

(***************************************************************************)
(* make_tri_grams and word_to_trigrams.                                    *)
(***************************************************************************)
\* a plausible slip: the length of the word taken in bytes
short_word_len_bytes(short_word) == str_len(short_word)

\* let short_word_len = short_word.chars().count();
short_word_len(short_word) == chars_count(short_word)

\* format!("{:-<3}", short_word): '-' appended up to a width of 3 chars
format_pad3(short_word) ==
    IF chars_count(short_word) >= 3 THEN short_word
    ELSE short_word \o Rep(45, 3 - chars_count(short_word))

pad_short_word(short_word) ==
    IF short_word_len(short_word) < 3 THEN format_pad3(short_word)
                                      ELSE short_word

\* itertools tuple_windows over chars, as (c1, c2, c3): one window per
\* char that has two chars after it
tuple_windows(cs) ==
    AsSeq([i \in 1 .. (IF Len(cs) < 3 THEN 0 ELSE Len(cs) - 2) |->
             << cs[i], cs[i + 1], cs[i + 2] >>])

word_to_trigrams(word) == Range(tuple_windows(word))

make_tri_grams(s) ==
    LET words == unicode_words(converted_string(s))
    IN  UNION { word_to_trigrams(pad_short_word(words[i])) :
                  i \in DOMAIN words }


(***************************************************************************)
(* The keyed hash.  SHA-256 is not computed: Sha256 stands for it as a     *)
(* deterministic digest of the bytes fed so far, five byte lanes wide, of  *)
(* which as_u32_be keeps the four most significant bytes.  Only what the   *)
(* code relies on is kept: equal input gives an equal hash, and distinct   *)
(* tri-grams may (rarely) collide.                                         *)
(***************************************************************************)
SHA_MULT == << 31, 37, 41, 43, 47 >>

\* Sha256::new()
Sha256_new == << 1, 2, 3, 4, 5 >>

Sha256_input(hasher, b) ==
    AsSeq([k \in 1 .. 5 |-> (hasher[k] * SHA_MULT[k] + b + k) % 251])

RECURSIVE Sha256_chain(_, _)
\* hasher.chain(bytes)
Sha256_chain(hasher, bytes) ==
    IF bytes = << >> THEN hasher
    ELSE Sha256_chain(Sha256_input(hasher, Head(bytes)), Tail(bytes))

\* hasher.result()
Sha256_result(hasher) == hasher

\* the most significant 4 bytes of the digest, as a big-endian u32
as_u32_be(slice) == << slice[1], slice[2], slice[3], slice[4] >>

\* partition_id is an Option: the empty set is None, {str} is Some(str)
partial_sha256(partition_id, salt) ==
    LET withPartition ==
          IF partition_id = {} THEN Sha256_new
          ELSE Sha256_chain(Sha256_new,
                            as_bytes(CHOOSE k \in partition_id : TRUE))
    IN  Sha256_chain(withPartition, salt)

short_hash(partition_id, salt, word) ==
    as_u32_be(Sha256_result(Sha256_chain(partial_sha256(partition_id, salt),
                                         word)))

TOO_LONG == "The input string is too long."

Err(e) == [err |-> e, ok |-> FALSE, set |-> {}]

Ok(set) == [err |-> "", ok |-> TRUE, set |-> set]

generate_hashes_for_string(s, partition_id, salt) ==
    IF str_len(s) > MAX_STRING_LEN THEN Err(TOO_LONG)
    ELSE Ok({ short_hash(partition_id, salt, as_bytes(tri_gram)) :
                 tri_gram \in make_tri_grams(s) })

(***************************************************************************)
(* The random generator.  Only the number of values drawn from it is kept  *)
(* (its position in its output stream); what a draw returns is chosen by   *)
(* the action that draws.                                                  *)
(***************************************************************************)
\* a plausible slip: the low end of the range left at 0
gen_range_from_zero(low, high) == (low - 1) .. (high - 1)

\* Rng::gen_range(low, high): uniform in [low, high)
gen_range(low, high) == low .. (high - 1)

\* the tiers of lines 49-57
to_add_range(prob) ==
    IF prob <= 1 THEN gen_range(1, 200)
    ELSE IF prob <= 5 THEN gen_range(1, 30)
    ELSE IF prob <= 50 THEN gen_range(1, 10)
    ELSE gen_range(1, 5)

\* the i-th value of a pool of u32 values
PoolVal(i) == << 0, 0, i \div 256, i % 256 >>

(***************************************************************************)
(* What sample_iter(ALL_U32).take(n) can add to the set hashes, up to the  *)
(* names of the values: nothing when n = 0; otherwise f distinct values    *)
(* (1 <= f <= n, the other n - f draws repeating them), or n draws that    *)
(* all repeat one value already in the set.                                *)
(***************************************************************************)
sample_iter_take(hashes, n) ==
    IF n = 0 THEN { {} }
    ELSE { { PoolVal(i) : i \in 1 .. f } : f \in 1 .. n }
           \cup { { x } : x \in IF hashes = {} THEN {}
                                ELSE { CHOOSE y \in hashes : TRUE } }

\* the outcomes a run with several callers follows
RepRolls == { 51 }

RepCounts(n) == { 1, n }

TierRolls(full) ==
    IF full THEN ONE_TO_TWO_HUNDRED ELSE ONE_TO_TWO_HUNDRED \cap RepRolls

PadCounts(prob, full) ==
    IF full THEN to_add_range(prob)
    ELSE { t \in to_add_range(prob) :
             t = 1 \/ \A u \in to_add_range(prob) : u <= t }

PadValues(hashes, n, full) ==
    IF full THEN sample_iter_take(hashes, n)
    ELSE { d \in sample_iter_take(hashes, n) :
             Cardinality(d) \in RepCounts(n) }

(***************************************************************************)
(* The inputs.                                                             *)
(***************************************************************************)
\* a, B, 1, space, '-', '?', U+0130, U+5FD7, U+AD11 ("gwang"), U+102AE
Alphabet == { 97, 66, 49, 32, 45, 63, 304, 24535, 44305, 66222 }

RECURSIVE StringsUpTo(_)
StringsUpTo(n) ==
    IF n = 0 THEN { << >> }
    ELSE LET shorter == StringsUpTo(n - 1)
         IN  shorter \cup { Append(str, c) : str \in shorter, c \in Alphabet }

\* 50 Hangul syllables, 150 bytes, whose romanizations join into one word
HangulRun == AsSeq([i \in 1 .. 50 |-> 44032 + ((1095 * i + 7) % 11172)])

LongInputs ==
    { Rep(97, 200), Rep(97, 201), Rep(233, 100), Rep(233, 101),
      Rep(233, 200), Rep(66222, 50), Rep(66222, 51), HangulRun,
      << 66222, 66223 >>, << 49, 50, 51, 32, 66, 97 >> }

TriInputs == StringsUpTo(MaxLen) \cup LongInputs

Partitions == { {}, { << 102, 111, 111 >> } }

Salts == { << 0 >> }

PadInputs ==
    { << >>, << 49, 50, 51 >>, << 33, 45 >>, Rep(233, 101), HangulRun }

Args(strings) ==
    { [partition_id |-> p, s |-> str, salt |-> salt0] :
        str \in strings, p \in Partitions, salt0 \in Salts }

\* the calls of a run with several callers
ConcArgs ==
    { [partition_id |-> {}, s |-> str, salt |-> << 0 >>] :
        str \in { << >>, Rep(233, 101), HangulRun } }

\* a call of generate_hashes_for_string as a tuple: its arguments s,
\* partition_id and salt, the tri-grams of line 96 (none when line 82
\* returns first) and the ok, err and set of what it returns
HashCall(a) ==
    LET r == generate_hashes_for_string(a.s, a.partition_id, a.salt)
    IN  << a.s, a.partition_id, a.salt,
           IF r.ok THEN make_tri_grams(a.s) ELSE {},
           r.ok, r.err, r.set >>

\* the Result of a call
Returns(k) == [err |-> k[6], ok |-> k[5], set |-> k[7]]

\* the calls each specification draws from, computed once
TriGramCalls == { << str, make_tri_grams(str) >> : str \in TriInputs }

HashCalls == { HashCall(a) : a \in Args(TriInputs) }

PadCalls == { HashCall(a) : a \in Args(PadInputs) }

ConcCalls == { HashCall(a) : a \in ConcArgs }

(***************************************************************************)
(* The state.                                                              *)
(***************************************************************************)
Callers == 1 .. NumCallers

VARIABLES
    s,                \* s[c]: the string caller c passed
    partition_id,     \* partition_id[c]: its Option<&str>
    salt,             \* salt[c]: its salt
    pc,               \* pc[c]: where caller c is in its call
    tri_grams,        \* tri_grams[c]: the set make_tri_grams(s) returned
    genuine,          \* genuine[c]: what generate_hashes_for_string returned
    hashes,           \* hashes[c]: the local HashSet<u32>
    prob,             \* prob[c]: the tier roll
    to_add,           \* to_add[c]: the pad count
    pad_len,          \* pad_len[c]: the number of values taken for padding
    result,           \* result[c]: what the call returned
    lock,             \* the Mutex: 0 when free, else the caller holding it
    rng,              \* the generator: the number of values drawn from it
    drawn,            \* drawn[c]: how many of them caller c drew
    acquired,         \* acquired[c]: how often caller c took the lock
    overflow_checks   \* the build: TRUE panics on overflow, FALSE wraps

vars ==
    << s, partition_id, salt, pc, tri_grams, genuine, hashes, prob, to_add,
       pad_len, result, lock, rng, drawn, acquired, overflow_checks >>

NotReturned == [err |-> "", ok |-> FALSE, set |-> {}]

Init ==
    /\ s = [c \in Callers |-> << >>]
    /\ partition_id = [c \in Callers |-> {}]
    /\ salt = [c \in Callers |-> << >>]
    /\ pc = [c \in Callers |-> "idle"]
    /\ tri_grams = [c \in Callers |-> {}]
    /\ genuine = [c \in Callers |-> NotReturned]
    /\ hashes = [c \in Callers |-> {}]
    /\ prob = [c \in Callers |-> 0]
    /\ to_add = [c \in Callers |-> 0]
    /\ pad_len = [c \in Callers |-> 0]
    /\ result = [c \in Callers |-> NotReturned]
    /\ lock = 0
    /\ rng = 0
    /\ drawn = [c \in Callers |-> 0]
    /\ acquired = [c \in Callers |-> 0]
    /\ overflow_checks \in BOOLEAN
    \* every call the specifications draw from is evaluated before the run
    /\ \A k \in TriGramCalls : Cardinality(k[2]) >= 0
    /\ \A k \in HashCalls : Cardinality(k[7]) <= Cardinality(k[4])
    /\ \A k \in PadCalls : Cardinality(k[7]) <= Cardinality(k[4])
    /\ \A k \in ConcCalls : Cardinality(k[7]) <= Cardinality(k[4])

(***************************************************************************)
(* take_lock: blocks until the Mutex is free, then holds it.  No caller    *)
(* panics while it holds the guard, so the Mutex is never poisoned and the *)
(* panic of take_lock is not reached.                                      *)
(***************************************************************************)
\* a plausible slip: the guard handed out without waiting for the Mutex
take_lock_no_wait(c) == lock' = c

take_lock(c) == lock = 0 /\ lock' = c

\* the MutexGuard is dropped
drop_guard(c) == lock' = 0

(***************************************************************************)
(* generate_hashes_for_string and make_tri_grams, called on their own.     *)
(***************************************************************************)
MakeTriGrams(c) ==
    /\ pc[c] = "idle"
    /\ \E k \in TriGramCalls :
         /\ s' = [s EXCEPT ![c] = k[1]]
         /\ tri_grams' = [tri_grams EXCEPT ![c] = k[2]]
    /\ pc' = [pc EXCEPT ![c] = "tri_done"]
    /\ UNCHANGED << partition_id, salt, genuine, hashes, prob, to_add, pad_len,
                    result, lock, rng, drawn, acquired, overflow_checks >>

GenerateHashes(c) ==
    /\ pc[c] = "idle"
    /\ \E k \in HashCalls :
         /\ s' = [s EXCEPT ![c] = k[1]]
         /\ partition_id' = [partition_id EXCEPT ![c] = k[2]]
         /\ salt' = [salt EXCEPT ![c] = k[3]]
         /\ tri_grams' = [tri_grams EXCEPT ![c] = k[4]]
         /\ genuine' = [genuine EXCEPT ![c] = Returns(k)]
         /\ result' = [result EXCEPT ![c] = Returns(k)]
    /\ pc' = [pc EXCEPT ![c] = "done"]
    /\ UNCHANGED << hashes, prob, to_add, pad_len, lock, rng, drawn, acquired,
                    overflow_checks >>

(***************************************************************************)
(* generate_hashes_for_string_with_padding, one action per step between    *)
(* two points where another caller can run.  full says whether every       *)
(* outcome of the generator is followed or the representative ones.        *)
(***************************************************************************)
\* a plausible slip: the error dropped and padding applied to an empty set
question_mark_ignored(r) == "L45"

\* the ? of line 43: an Err returns at once
question_mark(r) == IF r.ok THEN "L45" ELSE "done"

Call(c, calls) ==
    /\ pc[c] = "idle"
    /\ \E k \in calls :
         /\ s' = [s EXCEPT ![c] = k[1]]
         /\ partition_id' = [partition_id EXCEPT ![c] = k[2]]
         /\ salt' = [salt EXCEPT ![c] = k[3]]
         /\ tri_grams' = [tri_grams EXCEPT ![c] = k[4]]
         /\ genuine' = [genuine EXCEPT ![c] = Returns(k)]
         /\ hashes' = [hashes EXCEPT ![c] = Returns(k).set]
         /\ result' = [result EXCEPT ![c] =
                         IF question_mark(Returns(k)) = "done"
                           THEN Returns(k) ELSE @]
         /\ pc' = [pc EXCEPT ![c] = question_mark(Returns(k))]
    /\ UNCHANGED << prob, to_add, pad_len, lock, rng, drawn, acquired,
                    overflow_checks >>

\* take_lock(&rng) of lines 45, 48 and 63
TakeLock(c) ==
    /\ pc[c] \in { "L45", "L48", "L63" }
    /\ take_lock(c)
    /\ acquired' = [acquired EXCEPT ![c] = @ + 1]
    /\ pc' = [pc EXCEPT ![c] =
                IF pc[c] = "L45" THEN "L45_locked"
                ELSE IF pc[c] = "L48" THEN "L48_locked" ELSE "L63_locked"]
    /\ UNCHANGED << s, partition_id, salt, tri_grams, genuine, hashes, prob,
                    to_add, pad_len, result, rng, drawn, overflow_checks >>

\* line 45: the tier roll; the guard is a temporary of the statement
Sample45(c, full) ==
    /\ pc[c] = "L45_locked"
    /\ \E p \in TierRolls(full) : prob' = [prob EXCEPT ![c] = p]
    /\ rng' = rng + 1
    /\ drawn' = [drawn EXCEPT ![c] = @ + 1]
    /\ drop_guard(c)
    /\ pc' = [pc EXCEPT ![c] = "L48"]
    /\ UNCHANGED << s, partition_id, salt, tri_grams, genuine, hashes, to_add,
                    pad_len, result, acquired, overflow_checks >>

\* lines 46-58: the pad count; the guard lives to the end of the block
GenRange48(c, full) ==
    /\ pc[c] = "L48_locked"
    /\ \E t \in PadCounts(prob[c], full) : to_add' = [to_add EXCEPT ![c] = t]
    /\ rng' = rng + 1
    /\ drawn' = [drawn EXCEPT ![c] = @ + 1]
    /\ drop_guard(c)
    /\ pc' = [pc EXCEPT ![c] = "L61"]
    /\ UNCHANGED << s, partition_id, salt, tri_grams, genuine, hashes, prob,
                    pad_len, result, acquired, overflow_checks >>

(***************************************************************************)
(* Line 61: min(MAX_STRING_LEN - hashes.len(), to_add as usize), in usize. *)
(* When hashes.len() exceeds MAX_STRING_LEN the subtraction overflows: a   *)
(* build with overflow checks panics, a build without wraps to             *)
(* 2^64 - (hashes.len() - MAX_STRING_LEN), which is above any u8, so the   *)
(* minimum is to_add.                                                      *)
(***************************************************************************)
PadLen61(c) ==
    /\ pc[c] = "L61"
    /\ IF Cardinality(hashes[c]) <= MAX_STRING_LEN
         THEN /\ pad_len' = [pad_len EXCEPT ![c] =
                    Min(MAX_STRING_LEN - Cardinality(hashes[c]), to_add[c])]
              /\ pc' = [pc EXCEPT ![c] = "L63"]
         ELSE IF overflow_checks
           THEN /\ pc' = [pc EXCEPT ![c] = "panicked"]
                /\ UNCHANGED pad_len
           ELSE /\ pad_len' = [pad_len EXCEPT ![c] = to_add[c]]
                /\ pc' = [pc EXCEPT ![c] = "L63"]
    /\ UNCHANGED << s, partition_id, salt, tri_grams, genuine, hashes, prob,
                    to_add, result, lock, rng, drawn, acquired,
                    overflow_checks >>

\* lines 62-68: pad_len values drawn under one guard, then Ok(hashes)
Extend63(c, full) ==
    /\ pc[c] = "L63_locked"
    /\ \E d \in PadValues(hashes[c], pad_len[c], full) :
         /\ hashes' = [hashes EXCEPT ![c] = @ \cup d]
         /\ result' = [result EXCEPT ![c] = Ok(hashes[c] \cup d)]
    /\ rng' = rng + pad_len[c]
    /\ drawn' = [drawn EXCEPT ![c] = @ + pad_len[c]]
    /\ drop_guard(c)
    /\ pc' = [pc EXCEPT ![c] = "done"]
    /\ UNCHANGED << s, partition_id, salt, tri_grams, genuine, prob, to_add,
                    pad_len, acquired, overflow_checks >>

(***************************************************************************)
(* Spec: one caller, every outcome of the generator.                       *)
(* SpecConc: NumCallers callers sharing the Mutex, representative outcomes.*)
(* SpecTri: the functions without padding, called on their own.            *)
(***************************************************************************)
Next ==
    \/ Call(1, PadCalls)
    \/ TakeLock(1)
    \/ Sample45(1, TRUE)
    \/ GenRange48(1, TRUE)
    \/ PadLen61(1)
    \/ Extend63(1, TRUE)

Spec == Init /\ [][Next]_vars

Step(c) ==
    \/ Call(c, ConcCalls)
    \/ Sample45(c, FALSE)
    \/ GenRange48(c, FALSE)
    \/ PadLen61(c)
    \/ Extend63(c, FALSE)

NextConc == \E c \in Callers : Step(c) \/ TakeLock(c)

SpecConc == Init /\ [][NextConc]_vars

NextTri == MakeTriGrams(1) \/ GenerateHashes(1)

SpecTri == Init /\ [][NextTri]_vars

(***************************************************************************)
(* The claims.                                                             *)
(***************************************************************************)
\* what generate_hashes_for_string returned on the arguments of caller c
Genuine(c) == genuine[c]

Returned(c) == pc[c] = "done"

ReturnedOk(c) == pc[c] = "done" /\ result[c].ok

\* C1: whenever generate_hashes_for_string_with_padding returns Ok, the
\* returned set has at most MAX_STRING_LEN = 200 elements.
C1_PaddedSetAtMostMax ==
    \A c \in Callers :
        ReturnedOk(c) => Cardinality(result[c].set) <= MAX_STRING_LEN

\* C2: whenever generate_hashes_for_string_with_padding returns Ok, the
\* returned set has at least one element; when there is no genuine hash
\* (the empty string, a string of filtered characters) at least one padding
\* value was drawn and put into the set, whatever tier roll and pad count
\* were drawn.
C2_PaddedSetNotEmpty ==
    \A c \in Callers :
        ReturnedOk(c) =>
            /\ Cardinality(result[c].set) >= 1
            /\ Genuine(c).set = {} =>
                 /\ pad_len[c] >= 1
                 /\ drawn[c] = 2 + pad_len[c]
                 /\ result[c].set /= {}

\* the empty string returned with one padding value and nothing else
C2_Witness ==
    /\ ReturnedOk(1)
    /\ s[1] = << >>
    /\ pad_len[1] = 1
    /\ Cardinality(result[1].set) = 1

\* C3: generate_hashes_for_string returns the "too long" error exactly when
\* the input has more than 200 characters.
C3_ErrIffMoreThanMaxChars ==
    \A c \in Callers :
        Returned(c) =>
            /\ ~result[c].ok <=> chars_count(s[c]) > MAX_STRING_LEN
            /\ ~result[c].ok => result[c] = Err(TOO_LONG)

\* C4: whenever generate_hashes_for_string returns Ok there are at most
\* MAX_STRING_LEN distinct tri-grams and hashes, so the subtraction of
\* line 61, MAX_STRING_LEN - hashes.len(), is not negative.
C4_TriGramsAtMostMax ==
    \A c \in Callers :
        pc[c] = "L61" =>
            /\ Cardinality(tri_grams[c]) <= MAX_STRING_LEN
            /\ MAX_STRING_LEN - Cardinality(hashes[c]) >= 0

\* C5: the set returned with padding has strictly more elements than the
\* set generate_hashes_for_string returns on the same arguments.
C5_PaddingAddsOne ==
    \A c \in Callers :
        ReturnedOk(c) =>
            Cardinality(result[c].set) > Cardinality(Genuine(c).set)

\* C6: generate_hashes_for_string_with_padding returns Err exactly when
\* generate_hashes_for_string does on the same arguments, and the same
\* Err; the call then returns at once, having never taken the lock and
\* having drawn nothing from the generator.
C6_ErrOnlyFromHashing ==
    \A c \in Callers :
        /\ Returned(c) => (result[c].ok <=> Genuine(c).ok)
        /\ (pc[c] /= "idle" /\ ~Genuine(c).ok) =>
             /\ Returned(c)
             /\ result[c] = Genuine(c)
             /\ acquired[c] = 0
             /\ drawn[c] = 0
             /\ lock /= c

\* a call has returned Err while another caller has drawn from the generator
C6_Witness ==
    \E c \in Callers :
        /\ Returned(c)
        /\ ~result[c].ok
        /\ drawn[c] = 0
        /\ rng > 0

\* the two draws of caller c: after its tier roll, before its pad count
BetweenDraws(c) == pc[c] \in { "L48", "L48_locked" }

\* C7, as claimed: no other caller draws from the generator between a
\* caller's tier roll and that caller's pad count.
C7_NoDrawBetween ==
    [][\A c, d \in Callers :
          (c /= d /\ BetweenDraws(c)) => drawn'[d] = drawn[d]]_vars

\* C7, amended: every draw is made by the caller that holds the lock and
\* no other caller draws in that step; the lock is released after the tier
\* roll and taken again for the pad count, so it is not held across both.
C7_DrawsUnderLock ==
    [][\A c \in Callers :
          /\ drawn'[c] /= drawn[c] =>
               /\ lock = c
               /\ lock' = 0
               /\ \A d \in Callers \ { c } : drawn'[d] = drawn[d]
          /\ pc'[c] = "L48" => lock' /= c]_vars

\* a caller holds the lock for its draw while another caller, its tier
\* roll drawn, waits to draw its pad count
C7_Witness ==
    \E c, d \in Callers :
        /\ c /= d
        /\ pc[c] = "L48"
        /\ drawn[c] = 1
        /\ lock = d
        /\ pc[d] \in { "L45_locked", "L48_locked", "L63_locked" }

\* the pad counts of each tier
TierCounts(roll) ==
    IF roll <= 1 THEN 1 .. 199
    ELSE IF roll <= 5 THEN 1 .. 29
    ELSE IF roll <= 50 THEN 1 .. 9
    ELSE 1 .. 4

\* C8: the number of values drawn for padding is min(200 - g, c), g the
\* number of genuine hashes and c the pad count, and c lies in the range of
\* the tier of the roll.
C8_PadCountByTier ==
    \A c \in Callers :
        (pc[c] \in { "L63", "L63_locked" } \/ ReturnedOk(c)) =>
            /\ prob[c] \in 1 .. 200
            /\ to_add[c] \in TierCounts(prob[c])
            /\ pad_len[c] =
                 Min(MAX_STRING_LEN - Cardinality(Genuine(c).set), to_add[c])
            /\ ReturnedOk(c) => drawn[c] = 2 + pad_len[c]

\* the words of the normalized string
NormalizedWords(str) == unicode_words(converted_string(str))

Dashes(n) == AsSeq([i \in 1 .. n |-> 45])

\* C9: make_tri_grams returns exactly the 3-character windows of the words
\* of the normalized string, a word of fewer than 3 characters being first
\* padded on the right with '-' to 3 characters; every element has 3
\* characters, a word of 3 characters gives itself, the empty string gives
\* the empty set.
C9_TriGramsAreWindows ==
    \A c \in Callers :
        pc[c] = "tri_done" =>
            LET words == NormalizedWords(s[c])
            IN  /\ \A t \in tri_grams[c] :
                     /\ Len(t) = 3
                     /\ \E i \in DOMAIN words :
                          \/ /\ Len(words[i]) < 3
                             /\ t = words[i] \o Dashes(3 - Len(words[i]))
                          \/ \E j \in 1 .. Len(words[i]) - 2 :
                               t = SubSeq(words[i], j, j + 2)
                /\ \A i \in DOMAIN words :
                     /\ Len(words[i]) = 1 =>
                          << words[i][1], 45, 45 >> \in tri_grams[c]
                     /\ Len(words[i]) = 2 =>
                          << words[i][1], words[i][2], 45 >> \in tri_grams[c]
                     /\ Len(words[i]) = 3 => words[i] \in tri_grams[c]
                     /\ \A j \in 1 .. Len(words[i]) - 2 :
                          SubSeq(words[i], j, j + 2) \in tri_grams[c]
                /\ s[c] = << >> => tri_grams[c] = {}

\* two 4-byte characters without transliteration: one word of 2 characters,
\* padded to one tri-gram
C9_Witness ==
    /\ pc[1] = "tri_done"
    /\ s[1] = << 66222, 66223 >>
    /\ tri_grams[1] = { << 66222, 66223, 45 >> }

\* caller c has been called, has not returned, and can take no step now
\* or later: it neither can go on nor waits for a lock another caller holds
Stopped(c) ==
    /\ pc[c] \notin { "idle", "done" }
    /\ ~ENABLED (Step(c) \/ TakeLock(c))
    /\ ~(pc[c] \in { "L45", "L48", "L63" } /\ lock \in Callers \ { c })

\* C10: the lock is taken three times in a call, never by a call that
\* holds it, and is not held when the call returns; no caller waits for a
\* lock nobody holds, and every call returns: no call is left at a point
\* where it has not returned and cannot go on.
C10_EveryCallReturns ==
    \A c \in Callers :
        /\ acquired[c] <= 3
        /\ lock = c => pc[c] \in { "L45_locked", "L48_locked", "L63_locked" }
        /\ ReturnedOk(c) => acquired[c] = 3 /\ lock /= c
        /\ ~Stopped(c)

=============================================================================
